---- MODULE Spec2Model ----
(***************************************************************************)
(* Result-persistence pipeline of obsidian-slack (src/js/src/utils.ts,     *)
(* the file_links revision, lines 26-141): process_result / save_result    *)
(* running against a vault (file store), the attachment fetcher, the       *)
(* clipboard and the notification sink.                                    *)
(*                                                                         *)
(* Strings that the code inspects (paths, file names, error messages) are  *)
(* sequences of one-character strings, so that path.join and               *)
(* String.includes are computed the way the code computes them.  File      *)
(* contents are sequences of tokens.                                       *)
(***************************************************************************)
EXTENDS Integers, Sequences, FiniteSets, TLC

VARIABLES
    api_token,        \* get_slack_message_modal_on_close_helper argument
    url,              \* get_slack_message_modal_on_close_helper argument
    settings,         \* get_slack_message_modal_on_close_helper argument
    revision,         \* which of the two revisions held by utils.ts is running
    cookie,           \* process_result argument
    result,           \* process_result argument
    store,            \* vault: path -> content of the files that exist
    trashed,          \* vault: the (path, content) pairs moved to the trash
    pc,               \* position of the invocation in process_result / save_result
    attachment_path,  \* save_result local (line 53)
    file_path,        \* save_result local (lines 54 and 81)
    tfiles,           \* save_result local (line 55)
    tfile,            \* save_result local (lines 62 and 87)
    idx,              \* position of the for..of iterator over result.file_links (line 71)
    data,             \* save_result local (line 79): bytes returned by requestUrl
    err,              \* the value thrown to the catch of process_result (line 43)
    file_saved,       \* process_result local (line 33)
    log,              \* every call made on a collaborator, in order
    other             \* a second invocation of process_result: its arguments,
                      \* locals, position and calls while the first one runs

vars == << api_token, url, settings, revision, cookie, result, store, trashed, pc,
           attachment_path, file_path, tfiles, tfile, idx, data, err, file_saved, log,
           other >>

-----------------------------------------------------------------------------
(* Bounds *)

MaxLinks == 2

-----------------------------------------------------------------------------
(* Strings *)

\* String.prototype.includes: t occurs in s as a contiguous run
Includes(s, t) ==
    \E k \in 0..(Len(s) - Len(t)) :
        \A j \in 1..Len(t) : s[k + j] = t[j]

\* path.join on two segments without "." or ".." parts: empty segments are
\* dropped, the rest are joined with "/", and an empty join is "."
PathJoin(a, b) ==
    IF a = << >> /\ b = << >> THEN << "." >>
    ELSE IF a = << >> THEN b
    ELSE IF b = << >> THEN a
    ELSE a \o << "/" >> \o b

RECURSIVE Concat(_)
Concat(ss) == IF ss = << >> THEN << >> ELSE Head(ss) \o Concat(Tail(ss))

RECURSIVE Perms(_)
Perms(S) ==
    IF S = {} THEN { << >> }
    ELSE UNION { { << x >> \o p : p \in Perms(S \ {x}) } : x \in S }

-----------------------------------------------------------------------------
(* JavaScript values handled by the pipeline *)

\* A value is a record [tag, str, entries]: a string (str), a Map or a plain
\* object (entries: its [key, value] pairs in insertion order, both strings),
\* the object the replacer builds for a Map, or undefined.
StringValue(s)    == [tag |-> "String",    str |-> s,     entries |-> << >>]
MapValue(es)      == [tag |-> "Map",       str |-> << >>, entries |-> es]
ObjectValue(es)   == [tag |-> "Object",    str |-> << >>, entries |-> es]
Undefined         == [tag |-> "Undefined", str |-> << >>, entries |-> << >>]

\* result[name] for an object result: props is the list of own properties
GetProp(r, name) ==
    IF \E k \in 1..Len(r.props) : r.props[k][1] = name
    THEN r.props[CHOOSE k \in 1..Len(r.props) : r.props[k][1] = name][2]
    ELSE Undefined

\* if (value): undefined and "" are falsy, objects (Map, array) are truthy
Truthy(v) ==
    CASE v.tag = "Undefined" -> FALSE
      [] v.tag = "String"    -> v.str # << >>
      [] OTHER               -> TRUE

\* tfiles.length ? true : false: an empty array counts as false
ArrayTruthyNonEmpty(a) == a # << >>

\* tfiles ? true : false, tfiles being an array (arrays are truthy, also [])
ArrayTruthy(a) == TRUE

\* a replacer that returns every value as it is
replacerIdentity(key, value) == value

\* lines 132-141: a Map becomes { dataType: "Map", value: [its entries] }
replacer(key, value) ==
    IF value.tag = "Map"
    THEN [tag |-> "MapObject", str |-> << >>, entries |-> value.entries]
    ELSE value

\* JSON text, as a sequence of tokens
JsonString(s) == << "\"" >> \o s \o << "\"" >>

JsonPairs(es) ==
    Concat([k \in 1..Len(es) |->
        (IF k > 1 THEN << "," >> ELSE << >>)
        \o << "[" >> \o JsonString(es[k][1]) \o << "," >>
        \o JsonString(es[k][2]) \o << "]" >>])

JsonMembers(es) ==
    Concat([k \in 1..Len(es) |->
        (IF k > 1 THEN << "," >> ELSE << >>)
        \o JsonString(es[k][1]) \o << ":" >> \o JsonString(es[k][2])])

\* JSON.stringify of one value: a Map has no enumerable own properties and
\* is written as {}
JsonValue(v) ==
    CASE v.tag = "String"    -> JsonString(v.str)
      [] v.tag = "Map"       -> << "{", "}" >>
      [] v.tag = "Object"    -> << "{" >> \o JsonMembers(v.entries) \o << "}" >>
      [] v.tag = "MapObject" ->
            << "{", "dataType", ":", "Map", ",", "value", ":", "[" >>
            \o JsonPairs(v.entries) \o << "]", "}" >>
      [] OTHER               -> << >>

\* JSON.stringify(result, replacer, 2): every own property whose replaced
\* value is not undefined, in insertion order
JsonStringify(r) ==
    LET shown == SelectSeq(r.props, LAMBDA p : replacer(p[1], p[2]).tag # "Undefined")
    IN  << "{" >>
        \o Concat([k \in 1..Len(shown) |->
              (IF k > 1 THEN << "," >> ELSE << >>)
              \o << shown[k][1], ":" >>
              \o JsonValue(replacer(shown[k][1], shown[k][2]))])
        \o << "}" >>

-----------------------------------------------------------------------------
(* Inputs *)

Cookies   == { << "c", "1" >>, << "c", "2" >> }
Roots     == { << "a" >>, << >> }
\* names of files and attachments: "m", "f" and "mx" (which extends "m")
Names     == { << "m" >>, << "f" >>, << "m", "x" >> }
UrlOf(n)  == << "u", ":" >> \o n
BytesSet  == { << "B1" >>, << "B2" >> }
OldText   == << "old" >>
InlineText == << "D" >>

\* the sequences of at most n distinct names
RECURSIVE DistinctSeqs(_, _)
DistinctSeqs(S, n) ==
    IF n = 0 THEN { << >> }
    ELSE LET shorter == DistinctSeqs(S, n - 1)
         IN  shorter \cup
             UNION { { Append(q, x) : x \in S \ { q[i] : i \in 1..Len(q) } } :
                         q \in { t \in shorter : Len(t) = n - 1 } }

StringResult == [is_string |-> TRUE, text |-> << "bad_result" >>, props |-> << >>]

\* { message_and_thread: {}, file_name?, file_links?: Map, file_data?: {..} }
ObjectResult(name, links, inline) ==
    [is_string |-> FALSE, text |-> << >>,
     props |-> << << "message_and_thread", ObjectValue(<< >>) >> >>
               \o (IF name.tag = "Undefined" THEN << >> ELSE << << "file_name", name >> >>)
               \o (IF links.tag = "Undefined" THEN << >> ELSE << << "file_links", links >> >>)
               \o (IF inline.tag = "Undefined" THEN << >> ELSE << << "file_data", inline >> >>)]

FileNameValues == { Undefined, StringValue(<< >>), StringValue(<< "m" >>) }

FileLinksValues ==
    { Undefined } \cup
    { MapValue([k \in 1..Len(q) |-> << q[k], UrlOf(q[k]) >>]) :
          q \in DistinctSeqs(Names, MaxLinks) }

FileDataValue == ObjectValue(<< << << "f" >>, InlineText >> >>)

\* a result carries attachment links or inline attachment data, never both
Results ==
    { StringResult }
    \cup { ObjectResult(n, l, Undefined) : n \in FileNameValues, l \in FileLinksValues }
    \cup { ObjectResult(n, Undefined, FileDataValue) : n \in FileNameValues }

\* the files a vault may hold before the invocation
\* "a/m", "a/f", "a/mx" in the attachment folder "a", and "m" in the vault root
InitPaths ==
    { PathJoin(<< "a" >>, n) : n \in Names } \cup { << "m" >> }

InitStores ==
    UNION { [P -> { OldText }] : P \in SUBSET InitPaths }

-----------------------------------------------------------------------------
(* Collaborators: vault, fetcher, clipboard, notification sink *)

\* one call on a collaborator: its name, its path or url argument, its data
\* argument (for requestUrl: the method and the headers), how it ended and
\* what it returned
Call(op, path, arg, out, ret) ==
    [op |-> op, path |-> path, arg |-> arg, out |-> out, ret |-> ret]

\* how a call can end: "ok", or a throw / rejection with
\*   "exists"   an Error whose message contains "File already exists"
\*   "error"    any other Error
\*   "nonerror" a value that is not an Error instance
Failures == { "error", "nonerror" }

Thrown(out) ==
    CASE out = "exists"   -> [isError |-> TRUE,  message |-> << "File already exists", "." >>]
      [] out = "error"    -> [isError |-> TRUE,  message |-> << "whoops" >>]
      [] out = "nonerror" -> [isError |-> FALSE, message |-> << "rejected" >>]
      [] OTHER            -> [isError |-> FALSE, message |-> << >>]

NoError   == Thrown("ok")
TypeError == [isError |-> TRUE, message |-> << "TypeError" >>]

\* a folder exists at p when some file lies below it
IsFolder(st, p) ==
    \E f \in DOMAIN st :
        /\ Len(f) > Len(p) + 1
        /\ SubSeq(f, 1, Len(p) + 1) = p \o << "/" >>

\* Vault.create / Vault.createBinary refuse a path that is taken
CreateOutcomes(st, p) ==
    IF p \in DOMAIN st THEN { "exists" }
    ELSE IF IsFolder(st, p) THEN { "exists", "error" }
    ELSE { "ok", "error", "nonerror" }

WriteFile(st, p, c) == [q \in DOMAIN st \cup { p } |-> IF q = p THEN c ELSE st[q]]
RemoveFile(st, p)   == [q \in DOMAIN st \ { p } |-> st[q]]

\* the value of [][0] on an empty array
UndefinedHandle == << "undefined" >>

\* Vault.trash(file, true): a handle is the path of its file
TrashOutcomes(st, h) ==
    IF h \in DOMAIN st THEN { "ok", "error", "nonerror" } ELSE { "error" }

\* the cookie header without the "d=" prefix
HeaderCookieBare(c) == c

\* "d=" + cookie (line 76)
HeaderCookie(c) == << "d", "=" >> \o c

\* lines 72-78 but for the url: the method and the headers of the request
request_url_params(c) == << "GET", "cookie", ":" >> \o HeaderCookie(c)

-----------------------------------------------------------------------------
(* save_result, the parts without calls *)

FileName      == GetProp(result, "file_name")
FileLinks     == GetProp(result, "file_links")
LinkEntries   == FileLinks.entries
FileData      == GetProp(result, "file_data")
result_data   == JsonStringify(result)

\* catch of the primary create (lines 59-69)
OnCreateError(e) ==
    IF e.isError
    THEN IF Includes(e.message, << "File already exists" >>) THEN "recover" ELSE "rethrow"
    ELSE "swallow"

\* catch of an attachment's createBinary (lines 84-94)
OnCreateBinaryError(e) ==
    IF e.isError
    THEN IF Includes(e.message, << "File already exists" >>) THEN "recover" ELSE "rethrow"
    ELSE "swallow"

\* vault.getFiles().filter((file) => file_path.includes(file.path))[0]
FirstMatch(listing, fp) ==
    LET matching == SelectSeq(listing, LAMBDA f : Includes(fp, f))
    IN  IF matching = << >> THEN UndefinedHandle ELSE Head(matching)

\* the loop bound off by one: the last entry of file_links is skipped
LoopNextOffByOne(i) ==
    IF Truthy(FileLinks) /\ i < Len(LinkEntries) THEN "requestUrl" ELSE "return"

\* where save_result goes once entry i - 1 of file_links is done: the next
\* entry of the loop (lines 70-71), or the return (lines 97-98)
LoopNext(i) ==
    IF Truthy(FileLinks) /\ i <= Len(LinkEntries) THEN "requestUrl" ELSE "return"

-----------------------------------------------------------------------------
(* The plugin settings (utils.ts lines 8-24): the four feature flags *)

DEFAULT_SETTINGS ==
    [ get_users |-> FALSE, get_channel_info |-> FALSE,
      get_file_data |-> FALSE, get_team_info |-> FALSE ]

(* The invocation *)

\* no second invocation
NoOther == [pc |-> "none"]

Init ==
    /\ api_token = << >>
    /\ url = << >>
    /\ settings = DEFAULT_SETTINGS
    /\ revision = "file_links"
    /\ file_saved = FALSE
    /\ cookie \in Cookies
    /\ result \in Results
    /\ store \in InitStores
    /\ trashed = {}
    /\ pc = "start"
    /\ attachment_path = << >>
    /\ file_path = << >>
    /\ tfiles = << >>
    /\ tfile = UndefinedHandle
    /\ idx = 1
    /\ data = << >>
    /\ err = NoError
    /\ log = << >>
    /\ other = NoOther

\* Throw with no catch in process_result: the rejection leaves the invocation
ThrowUncaught(e) ==
    /\ err' = e
    /\ pc' = "uncaught"

\* throw e out of save_result, to the catch of process_result
Throw(e) ==
    /\ err' = e
    /\ pc' = "catch"

\* process_result lines 28-31 without the return: execution goes on into
\* save_result, whose path.join throws on the missing file_name
ProcessStringNoReturn ==
    /\ pc = "start"
    /\ result.is_string
    /\ \E root \in Roots :
          log' = log \o << Call("alert", << >>, result.text, "ok", << >>),
                           Call("getConfig", << "attachmentFolderPath" >>, << >>,
                                "ok", root) >>
    /\ Throw(TypeError)
    /\ UNCHANGED << other, api_token, url, settings, revision, file_saved, cookie, result, store, trashed, attachment_path, file_path,
                    tfiles, tfile, idx, data >>

\* process_result lines 28-31
ProcessString ==
    /\ pc = "start"
    /\ result.is_string
    /\ log' = Append(log, Call("alert", << >>, result.text, "ok", << >>))
    /\ pc' = "done"
    /\ UNCHANGED << other, api_token, url, settings, revision, file_saved, cookie, result, store, trashed, attachment_path, file_path,
                    tfiles, tfile, idx, data, err >>

\* GetConfig with the primary path built without the attachment folder
GetConfigNoJoin ==
    /\ pc = "start"
    /\ ~ result.is_string
    /\ \E out \in { "ok" } \cup Failures :
        \E root \in (IF out = "ok" THEN Roots ELSE { << >> }) :
            /\ log' = Append(log, Call("getConfig", << "attachmentFolderPath" >>,
                                       << >>, out, root))
            /\ IF out # "ok"
               THEN Throw(Thrown(out)) /\ UNCHANGED << attachment_path, file_path >>
               ELSE /\ attachment_path' = root
                    /\ IF FileName.tag = "String"
                       THEN /\ file_path' = FileName.str
                            /\ pc' = "create"
                            /\ UNCHANGED err
                       ELSE Throw(TypeError) /\ UNCHANGED file_path
    /\ UNCHANGED << other, api_token, url, settings, revision, file_saved, cookie, result, store, trashed, tfiles, tfile, idx, data >>

\* process_result line 33, save_result lines 51-56
GetConfig ==
    /\ pc = "start"
    /\ ~ result.is_string
    /\ \E out \in { "ok" } \cup Failures :
        \E root \in (IF out = "ok" THEN Roots ELSE { << >> }) :
            /\ log' = Append(log, Call("getConfig", << "attachmentFolderPath" >>,
                                       << >>, out, root))
            /\ IF out # "ok"
               THEN Throw(Thrown(out)) /\ UNCHANGED << attachment_path, file_path >>
               ELSE /\ attachment_path' = root
                    /\ IF FileName.tag = "String"
                       THEN /\ file_path' = PathJoin(root, FileName.str)
                            /\ pc' = "create"
                            /\ UNCHANGED err
                       ELSE \* path.join throws on an argument that is not a string
                            Throw(TypeError) /\ UNCHANGED file_path
    /\ UNCHANGED << other, api_token, url, settings, revision, file_saved, cookie, result, store, trashed, tfiles, tfile, idx, data >>

\* save_result lines 57-61 and 65-69
CreatePrimary ==
    /\ pc = "create"
    /\ \E out \in CreateOutcomes(store, file_path) :
        /\ log' = Append(log, Call("create", file_path, result_data, out, << >>))
        /\ IF out = "ok"
           THEN /\ store' = WriteFile(store, file_path, result_data)
                /\ tfiles' = << file_path >>
                /\ pc' = LoopNext(idx)
                /\ UNCHANGED err
           ELSE /\ UNCHANGED << store, tfiles >>
                /\ CASE OnCreateError(Thrown(out)) = "recover" ->
                            pc' = "getFiles" /\ UNCHANGED err
                     [] OnCreateError(Thrown(out)) = "rethrow" ->
                            Throw(Thrown(out))
                     [] OTHER ->
                            pc' = LoopNext(idx) /\ UNCHANGED err
    /\ UNCHANGED << other, api_token, url, settings, revision, file_saved, cookie, result, trashed, attachment_path, file_path, tfile,
                    idx, data >>

\* save_result line 62
GetFilesPrimary ==
    /\ pc = "getFiles"
    /\ \E out \in { "ok" } \cup Failures :
        /\ log' = Append(log, Call("getFiles", << >>, << >>, out, << >>))
        /\ IF out = "ok"
           THEN /\ tfile' \in { FirstMatch(listing, file_path) :
                                     listing \in Perms(DOMAIN store) }
                /\ pc' = "trash"
                /\ UNCHANGED err
           ELSE Throw(Thrown(out)) /\ UNCHANGED tfile
    /\ UNCHANGED << other, api_token, url, settings, revision, file_saved, cookie, result, store, trashed, attachment_path, file_path,
                    tfiles, idx, data >>

\* save_result line 63
TrashPrimary ==
    /\ pc = "trash"
    /\ \E out \in TrashOutcomes(store, tfile) :
        /\ log' = Append(log, Call("trash", tfile, << >>, out, << >>))
        /\ IF out = "ok"
           THEN /\ store' = RemoveFile(store, tfile)
                /\ trashed' = trashed \cup { << tfile, store[tfile] >> }
                /\ pc' = "retry"
                /\ UNCHANGED err
           ELSE Throw(Thrown(out)) /\ UNCHANGED << store, trashed >>
    /\ UNCHANGED << other, api_token, url, settings, revision, file_saved, cookie, result, attachment_path, file_path, tfiles, tfile,
                    idx, data >>

\* JSON.stringify(r, undefined, 2): no replacer (line 199)
JsonStringifyPlain(r) ==
    LET shown == SelectSeq(r.props, LAMBDA p : p[2].tag # "Undefined")
    IN  << "{" >>
        \o Concat([k \in 1..Len(shown) |->
              (IF k > 1 THEN << "," >> ELSE << >>)
              \o << shown[k][1], ":" >>
              \o JsonValue(shown[k][2])])
        \o << "}" >>

\* the retry serializing the result anew, without the replacer
RetryCreatePrimaryPlainJson ==
    /\ pc = "retry"
    /\ \E out \in CreateOutcomes(store, file_path) :
        /\ log' = Append(log, Call("create", file_path,
                                   JsonStringifyPlain(result), out, << >>))
        /\ IF out = "ok"
           THEN /\ store' = WriteFile(store, file_path,
                                      JsonStringifyPlain(result))
                /\ tfiles' = << file_path >>
                /\ pc' = LoopNext(idx)
                /\ UNCHANGED err
           ELSE Throw(Thrown(out)) /\ UNCHANGED << store, tfiles >>
    /\ UNCHANGED << other, api_token, url, settings, revision, file_saved, cookie, result, trashed, attachment_path, file_path, tfile,
                    idx, data >>

\* RetryCreatePrimary with the failure of the second create ignored
RetryCreatePrimarySwallow ==
    /\ pc = "retry"
    /\ \E out \in CreateOutcomes(store, file_path) :
        /\ log' = Append(log, Call("create", file_path, result_data, out, << >>))
        /\ IF out = "ok"
           THEN /\ store' = WriteFile(store, file_path, result_data)
                /\ tfiles' = << file_path >>
           ELSE UNCHANGED << store, tfiles >>
        /\ pc' = LoopNext(idx)
    /\ UNCHANGED << other, api_token, url, settings, revision, file_saved, cookie, result, trashed,
                    attachment_path, file_path, tfile, idx, data, err >>

\* save_result line 64
RetryCreatePrimary ==
    /\ pc = "retry"
    /\ \E out \in CreateOutcomes(store, file_path) :
        /\ log' = Append(log, Call("create", file_path, result_data, out, << >>))
        /\ IF out = "ok"
           THEN /\ store' = WriteFile(store, file_path, result_data)
                /\ tfiles' = << file_path >>
                /\ pc' = LoopNext(idx)
                /\ UNCHANGED err
           ELSE Throw(Thrown(out)) /\ UNCHANGED << store, tfiles >>
    /\ UNCHANGED << other, api_token, url, settings, revision, file_saved, cookie, result, trashed, attachment_path, file_path, tfile,
                    idx, data >>

\* RequestUrl without the await: the fetch of the next attachment is issued
\* along with the fetch of this one
RequestUrlFanOut ==
    /\ pc = "requestUrl"
    /\ LET key == LinkEntries[idx][1]
           val == LinkEntries[idx][2]
           ahead == IF idx < Len(LinkEntries)
                    THEN << Call("requestUrl", LinkEntries[idx + 1][2],
                                 request_url_params(cookie), "ok", << >>) >>
                    ELSE << >>
       IN  \E out \in { "ok" } \cup Failures :
             \E bytes \in (IF out = "ok" THEN BytesSet ELSE { << >> }) :
               /\ log' = Append(log, Call("requestUrl", val, request_url_params(cookie),
                                          out, bytes)) \o ahead
               /\ IF out = "ok"
                  THEN /\ data' = bytes
                       /\ file_path' = PathJoin(attachment_path, key)
                       /\ pc' = "createBinary"
                       /\ UNCHANGED err
                  ELSE Throw(Thrown(out)) /\ UNCHANGED << data, file_path >>
    /\ UNCHANGED << other, api_token, url, settings, revision, file_saved, cookie, result, store,
                    trashed, attachment_path, tfiles, tfile, idx >>

\* RequestUrl with a failed fetch skipped instead of thrown: the loop goes on
\* with the next attachment
RequestUrlSkipOnFailure ==
    /\ pc = "requestUrl"
    /\ LET key == LinkEntries[idx][1]
           val == LinkEntries[idx][2]
       IN  \E out \in { "ok" } \cup Failures :
             \E bytes \in (IF out = "ok" THEN BytesSet ELSE { << >> }) :
               /\ log' = Append(log, Call("requestUrl", val, request_url_params(cookie),
                                          out, bytes))
               /\ IF out = "ok"
                  THEN /\ data' = bytes
                       /\ file_path' = PathJoin(attachment_path, key)
                       /\ pc' = "createBinary"
                       /\ UNCHANGED idx
                  ELSE /\ idx' = idx + 1
                       /\ pc' = LoopNext(idx + 1)
                       /\ UNCHANGED << data, file_path >>
    /\ UNCHANGED << other, api_token, url, settings, revision, file_saved, cookie, result, store,
                    trashed, attachment_path, tfiles, tfile, err >>

\* save_result lines 71-81
RequestUrl ==
    /\ pc = "requestUrl"
    /\ LET key == LinkEntries[idx][1]
           val == LinkEntries[idx][2]
       IN  \E out \in { "ok" } \cup Failures :
             \E bytes \in (IF out = "ok" THEN BytesSet ELSE { << >> }) :
               /\ log' = Append(log, Call("requestUrl", val, request_url_params(cookie),
                                          out, bytes))
               /\ IF out = "ok"
                  THEN /\ data' = bytes
                       /\ file_path' = PathJoin(attachment_path, key)
                       /\ pc' = "createBinary"
                       /\ UNCHANGED err
                  ELSE Throw(Thrown(out)) /\ UNCHANGED << data, file_path >>
    /\ UNCHANGED << other, api_token, url, settings, revision, file_saved, cookie, result, store, trashed, attachment_path, tfiles,
                    tfile, idx >>

\* save_result lines 82-86 and 90-95
CreateBinary ==
    /\ pc = "createBinary"
    /\ \E out \in CreateOutcomes(store, file_path) :
        /\ log' = Append(log, Call("createBinary", file_path, data, out, << >>))
        /\ IF out = "ok"
           THEN /\ store' = WriteFile(store, file_path, data)
                /\ tfiles' = tfiles \o << file_path >>
                /\ idx' = idx + 1
                /\ pc' = LoopNext(idx + 1)
                /\ UNCHANGED err
           ELSE /\ UNCHANGED << store, tfiles >>
                /\ CASE OnCreateBinaryError(Thrown(out)) = "recover" ->
                            pc' = "getFilesBinary" /\ UNCHANGED << err, idx >>
                     [] OnCreateBinaryError(Thrown(out)) = "rethrow" ->
                            Throw(Thrown(out)) /\ UNCHANGED idx
                     [] OTHER ->
                            /\ idx' = idx + 1
                            /\ pc' = LoopNext(idx + 1)
                            /\ UNCHANGED err
    /\ UNCHANGED << other, api_token, url, settings, revision, file_saved, cookie, result, trashed, attachment_path, file_path, tfile,
                    data >>

\* save_result line 87
GetFilesBinary ==
    /\ pc = "getFilesBinary"
    /\ \E out \in { "ok" } \cup Failures :
        /\ log' = Append(log, Call("getFiles", << >>, << >>, out, << >>))
        /\ IF out = "ok"
           THEN /\ tfile' \in { FirstMatch(listing, file_path) :
                                     listing \in Perms(DOMAIN store) }
                /\ pc' = "trashBinary"
                /\ UNCHANGED err
           ELSE Throw(Thrown(out)) /\ UNCHANGED tfile
    /\ UNCHANGED << other, api_token, url, settings, revision, file_saved, cookie, result, store, trashed, attachment_path, file_path,
                    tfiles, idx, data >>

\* TrashBinary with a failed trash ignored: the retry is made all the same
TrashBinaryIgnoreFailure ==
    /\ pc = "trashBinary"
    /\ \E out \in TrashOutcomes(store, tfile) :
        /\ log' = Append(log, Call("trash", tfile, << >>, out, << >>))
        /\ IF out = "ok"
           THEN /\ store' = RemoveFile(store, tfile)
                /\ trashed' = trashed \cup { << tfile, store[tfile] >> }
           ELSE UNCHANGED << store, trashed >>
        /\ pc' = "retryBinary"
    /\ UNCHANGED << other, api_token, url, settings, revision, file_saved, cookie, result,
                    attachment_path, file_path, tfiles, tfile, idx, data, err >>

\* save_result line 88
TrashBinary ==
    /\ pc = "trashBinary"
    /\ \E out \in TrashOutcomes(store, tfile) :
        /\ log' = Append(log, Call("trash", tfile, << >>, out, << >>))
        /\ IF out = "ok"
           THEN /\ store' = RemoveFile(store, tfile)
                /\ trashed' = trashed \cup { << tfile, store[tfile] >> }
                /\ pc' = "retryBinary"
                /\ UNCHANGED err
           ELSE Throw(Thrown(out)) /\ UNCHANGED << store, trashed >>
    /\ UNCHANGED << other, api_token, url, settings, revision, file_saved, cookie, result, attachment_path, file_path, tfiles, tfile,
                    idx, data >>

\* RetryCreateBinary leaving the loop after a successful retry
RetryCreateBinaryReturns ==
    /\ pc = "retryBinary"
    /\ \E out \in CreateOutcomes(store, file_path) :
        /\ log' = Append(log, Call("createBinary", file_path, data, out, << >>))
        /\ IF out = "ok"
           THEN /\ store' = WriteFile(store, file_path, data)
                /\ tfiles' = << file_path >>
                /\ idx' = idx + 1
                /\ pc' = "return"
                /\ UNCHANGED err
           ELSE Throw(Thrown(out)) /\ UNCHANGED << store, tfiles, idx >>
    /\ UNCHANGED << other, api_token, url, settings, revision, file_saved, cookie, result, trashed,
                    attachment_path, file_path, tfile, data >>

\* RetryCreateBinary starting the recovery again when the retry collides
RetryCreateBinaryAgain ==
    /\ pc = "retryBinary"
    /\ \E out \in CreateOutcomes(store, file_path) :
        /\ log' = Append(log, Call("createBinary", file_path, data, out, << >>))
        /\ IF out = "ok"
           THEN /\ store' = WriteFile(store, file_path, data)
                /\ tfiles' = << file_path >>
                /\ idx' = idx + 1
                /\ pc' = LoopNext(idx + 1)
                /\ UNCHANGED err
           ELSE IF out = "exists"
           THEN pc' = "getFilesBinary" /\ UNCHANGED << store, tfiles, idx, err >>
           ELSE Throw(Thrown(out)) /\ UNCHANGED << store, tfiles, idx >>
    /\ UNCHANGED << other, api_token, url, settings, revision, file_saved, cookie, result, trashed,
                    attachment_path, file_path, tfile, data >>

\* save_result line 89
RetryCreateBinary ==
    /\ pc = "retryBinary"
    /\ \E out \in CreateOutcomes(store, file_path) :
        /\ log' = Append(log, Call("createBinary", file_path, data, out, << >>))
        /\ IF out = "ok"
           THEN /\ store' = WriteFile(store, file_path, data)
                /\ tfiles' = << file_path >>
                /\ idx' = idx + 1
                /\ pc' = LoopNext(idx + 1)
                /\ UNCHANGED err
           ELSE Throw(Thrown(out)) /\ UNCHANGED << store, tfiles, idx >>
    /\ UNCHANGED << other, api_token, url, settings, revision, file_saved, cookie, result, trashed, attachment_path, file_path, tfile,
                    data >>

\* save_result lines 97-98 and the assignment of process_result line 33
Return ==
    /\ pc = "return"
    /\ file_saved' = ArrayTruthy(tfiles)
    /\ pc' = "saved"
    /\ UNCHANGED << other, api_token, url, settings, revision, cookie, result, store, trashed,
                    attachment_path, file_path, tfiles, tfile, idx, data, err, log >>

\* Saved without the await on writeText: a rejection is not caught and the
\* Notice is emitted all the same
SavedNoAwait ==
    /\ pc = "saved"
    /\ \E out \in { "ok" } \cup Failures :
          log' = Append(log, Call("writeText", << >>, FileName.str, out, << >>))
    /\ pc' = "notice"
    /\ UNCHANGED << other, api_token, url, settings, revision, file_saved, cookie, result, store,
                    trashed, attachment_path, file_path, tfiles, tfile, idx, data, err >>

\* Saved taking the branch of a true file_saved whatever save_result returned
SavedWhateverResult ==
    /\ pc = "saved"
    /\ \E out \in { "ok" } \cup Failures :
          /\ log' = Append(log, Call("writeText", << >>, FileName.str, out, << >>))
          /\ IF out = "ok"
             THEN pc' = "notice" /\ UNCHANGED err
             ELSE Throw(Thrown(out))
    /\ UNCHANGED << other, api_token, url, settings, revision, file_saved, cookie, result, store,
                    trashed, attachment_path, file_path, tfiles, tfile, idx, data >>

\* process_result lines 35-36 and 40-42
Saved ==
    /\ pc = "saved"
    /\ IF file_saved
       THEN \E out \in { "ok" } \cup Failures :
               /\ log' = Append(log, Call("writeText", << >>, FileName.str, out, << >>))
               /\ IF out = "ok"
                  THEN pc' = "notice" /\ UNCHANGED err
                  ELSE Throw(Thrown(out))
       ELSE /\ log' = Append(log, Call("alert", << >>,
                                       << "File saving was unsuccessful" >>, "ok", << >>))
            /\ pc' = "done"
            /\ UNCHANGED err
    /\ UNCHANGED << other, api_token, url, settings, revision, file_saved, cookie, result, store,
                    trashed, attachment_path, file_path, tfiles, tfile, idx, data >>

\* process_result lines 37-39
SuccessNotice ==
    /\ pc = "notice"
    /\ log' = Append(log, Call("Notice", << >>,
                               << "Successfully downloaded slack message" >>, "ok", << >>))
    /\ pc' = "done"
    /\ UNCHANGED << other, api_token, url, settings, revision, file_saved, cookie, result, store, trashed, attachment_path, file_path,
                    tfiles, tfile, idx, data, err >>

\* CatchAlert with a rollback: the files that save_result has written are
\* removed before the alert
CatchAlertRollback ==
    /\ pc = "catch"
    /\ log' = Append(log, Call("alert", << >>,
                               << "There was a problem saving message results: " >>
                               \o err.message, "ok", << >>))
    /\ store' = [q \in DOMAIN store \ { tfiles[k] : k \in 1..Len(tfiles) } |-> store[q]]
    /\ pc' = "done"
    /\ UNCHANGED << other, api_token, url, settings, revision, file_saved, cookie, result,
                    trashed, attachment_path, file_path, tfiles, tfile, idx, data, err >>

\* process_result lines 43-47
CatchAlert ==
    /\ pc = "catch"
    /\ log' = Append(log, Call("alert", << >>,
                               << "There was a problem saving message results: " >>
                               \o err.message, "ok", << >>))
    /\ pc' = "done"
    /\ UNCHANGED << other, api_token, url, settings, revision, file_saved, cookie, result, store, trashed, attachment_path, file_path,
                    tfiles, tfile, idx, data, err >>

Next ==
    \/ ProcessString
    \/ GetConfig
    \/ CreatePrimary
    \/ GetFilesPrimary
    \/ TrashPrimary
    \/ RetryCreatePrimary
    \/ RequestUrl
    \/ CreateBinary
    \/ GetFilesBinary
    \/ TrashBinary
    \/ RetryCreateBinary
    \/ Return
    \/ Saved
    \/ SuccessNotice
    \/ CatchAlert

Spec == Init /\ [][Next]_vars

-----------------------------------------------------------------------------
(* The file_data revision of process_result / save_result (lines 166-208) *)

\* line 192
keys_to_save == { "message_and_thread", "users", "channel", "teams", "file_name" }

\* lines 193-198: the own properties of the result that are in keys_to_save
result_filtered(r) ==
    [r EXCEPT !.props = SelectSeq(r.props, LAMBDA p : p[1] \in keys_to_save)]

\* result.message_and_thread.file_name (line 176)
ThreadFileName ==
    LET es == GetProp(result, "message_and_thread").entries
    IN  IF \E k \in 1..Len(es) : es[k][1] = << "file_name" >>
        THEN StringValue(es[CHOOSE k \in 1..Len(es) : es[k][1] = << "file_name" >>][2])
        ELSE Undefined

\* the text the clipboard takes from a value: undefined is written as "undefined"
ClipboardText(v) == IF v.tag = "Undefined" THEN << "undefined" >> ELSE v.str

\* where save_result goes before entry i of file_data: into the loop
\* (lines 201-205) or to the return (line 207)
DataNext(i) ==
    IF Truthy(FileData) /\ i <= Len(FileData.entries) THEN "fd_data" ELSE "fd_return"

\* { message_and_thread: {file_name?}, file_name?, users?, file_data?: {..} }
DataResult(thread, name, users, inline) ==
    [is_string |-> FALSE, text |-> << >>,
     props |-> << << "message_and_thread", thread >> >>
               \o (IF name.tag = "Undefined" THEN << >> ELSE << << "file_name", name >> >>)
               \o (IF users.tag = "Undefined" THEN << >> ELSE << << "users", users >> >>)
               \o (IF inline.tag = "Undefined" THEN << >> ELSE << << "file_data", inline >> >>)]

ThreadValues ==
    { ObjectValue(<< >>),
      ObjectValue(<< << << "file_name" >>, << "m" >> >> >>),
      ObjectValue(<< << << "file_name" >>, << "t" >> >> >>) }

UsersValues == { Undefined, ObjectValue(<< << << "U1" >>, << "ann" >> >> >>) }

FileDataValues ==
    { Undefined } \cup
    { ObjectValue([k \in 1..Len(q) |-> << q[k], InlineText >>]) :
          q \in DistinctSeqs(Names, MaxLinks) }

ResultsData ==
    { StringResult }
    \cup { DataResult(t, n, u, d) : t \in ThreadValues, n \in FileNameValues,
                                    u \in UsersValues, d \in FileDataValues }

InitData ==
    /\ api_token = << >>
    /\ url = << >>
    /\ settings = DEFAULT_SETTINGS
    /\ revision = "file_data"
    /\ file_saved = FALSE
    /\ cookie = << >>
    /\ result \in ResultsData
    /\ store \in InitStores
    /\ trashed = {}
    /\ pc = "fd_start"
    /\ attachment_path = << >>
    /\ file_path = << >>
    /\ tfiles = << >>
    /\ tfile = UndefinedHandle
    /\ idx = 1
    /\ data = << >>
    /\ err = NoError
    /\ log = << >>
    /\ other = NoOther

\* throw e out of save_result, to the catch of process_result (line 183)
ThrowData(e) ==
    /\ err' = e
    /\ pc' = "fd_catch"

\* process_result lines 168-171
ProcessStringData ==
    /\ pc = "fd_start"
    /\ result.is_string
    /\ log' = Append(log, Call("alert", << >>, result.text, "ok", << >>))
    /\ pc' = "done"
    /\ UNCHANGED << other, api_token, url, settings, revision, file_saved, cookie, result, store,
                    trashed, attachment_path, file_path, tfiles, tfile, idx, data, err >>

\* process_result line 173, save_result lines 190-191
GetConfigData ==
    /\ pc = "fd_start"
    /\ ~ result.is_string
    /\ \E out \in { "ok" } \cup Failures :
        \E root \in (IF out = "ok" THEN Roots ELSE { << >> }) :
            /\ log' = Append(log, Call("getConfig", << "attachmentFolderPath" >>,
                                       << >>, out, root))
            /\ IF out # "ok"
               THEN ThrowData(Thrown(out)) /\ UNCHANGED << attachment_path, file_path >>
               ELSE /\ attachment_path' = root
                    /\ IF FileName.tag = "String"
                       THEN /\ file_path' = PathJoin(root, FileName.str)
                            /\ pc' = "fd_create"
                            /\ UNCHANGED err
                       ELSE \* path.join throws on an argument that is not a string
                            ThrowData(TypeError) /\ UNCHANGED file_path
    /\ UNCHANGED << other, api_token, url, settings, revision, file_saved, cookie, result, store,
                    trashed, tfiles, tfile, idx, data >>

\* CreateRecordData without the filter of lines 193-198: the whole result is
\* written
CreateRecordDataUnfiltered ==
    /\ pc = "fd_create"
    /\ \E out \in CreateOutcomes(store, file_path) :
        /\ log' = Append(log, Call("create", file_path, JsonStringifyPlain(result),
                                   out, << >>))
        /\ IF out = "ok"
           THEN /\ store' = WriteFile(store, file_path, JsonStringifyPlain(result))
                /\ tfile' = file_path
                /\ pc' = DataNext(idx)
                /\ UNCHANGED err
           ELSE ThrowData(Thrown(out)) /\ UNCHANGED << store, tfile >>
    /\ UNCHANGED << other, api_token, url, settings, revision, file_saved, cookie, result, trashed,
                    attachment_path, file_path, tfiles, idx, data >>

\* save_result lines 192-200: no catch, every failure leaves save_result
CreateRecordData ==
    /\ pc = "fd_create"
    /\ \E out \in CreateOutcomes(store, file_path) :
        /\ log' = Append(log, Call("create", file_path,
                                   JsonStringifyPlain(result_filtered(result)),
                                   out, << >>))
        /\ IF out = "ok"
           THEN /\ store' = WriteFile(store, file_path,
                                      JsonStringifyPlain(result_filtered(result)))
                /\ tfile' = file_path
                /\ pc' = DataNext(idx)
                /\ UNCHANGED err
           ELSE ThrowData(Thrown(out)) /\ UNCHANGED << store, tfile >>
    /\ UNCHANGED << other, api_token, url, settings, revision, file_saved, cookie, result, trashed,
                    attachment_path, file_path, tfiles, idx, data >>

\* save_result lines 201-206: one entry of file_data
CreateData ==
    /\ pc = "fd_data"
    /\ LET key == FileData.entries[idx][1]
           val == FileData.entries[idx][2]
       IN  \E out \in CreateOutcomes(store, PathJoin(attachment_path, key)) :
             /\ log' = Append(log, Call("create", PathJoin(attachment_path, key),
                                        val, out, << >>))
             /\ IF out = "ok"
                THEN /\ store' = WriteFile(store, PathJoin(attachment_path, key), val)
                     /\ idx' = idx + 1
                     /\ pc' = DataNext(idx + 1)
                     /\ UNCHANGED err
                ELSE ThrowData(Thrown(out)) /\ UNCHANGED << store, idx >>
    /\ UNCHANGED << other, api_token, url, settings, revision, file_saved, cookie, result, trashed,
                    attachment_path, file_path, tfiles, tfile, data >>

\* save_result line 207 and the assignment of process_result line 173
ReturnData ==
    /\ pc = "fd_return"
    /\ file_saved' = (tfile # UndefinedHandle)
    /\ pc' = "fd_saved"
    /\ UNCHANGED << other, api_token, url, settings, revision, cookie, result, store, trashed,
                    attachment_path, file_path, tfiles, tfile, idx, data, err, log >>

\* process_result lines 175-176 and 180-182
SavedData ==
    /\ pc = "fd_saved"
    /\ IF file_saved
       THEN \E out \in { "ok" } \cup Failures :
               /\ log' = Append(log, Call("writeText", << >>,
                                          ClipboardText(ThreadFileName), out, << >>))
               /\ IF out = "ok"
                  THEN pc' = "fd_notice" /\ UNCHANGED err
                  ELSE ThrowData(Thrown(out))
       ELSE /\ log' = Append(log, Call("alert", << >>,
                                       << "File saving was unsuccessful" >>, "ok", << >>))
            /\ pc' = "done"
            /\ UNCHANGED err
    /\ UNCHANGED << other, api_token, url, settings, revision, file_saved, cookie, result, store,
                    trashed, attachment_path, file_path, tfiles, tfile, idx, data >>

\* process_result lines 177-179
SuccessNoticeData ==
    /\ pc = "fd_notice"
    /\ log' = Append(log, Call("Notice", << >>,
                               << "Successfully downloaded slack message" >>, "ok", << >>))
    /\ pc' = "done"
    /\ UNCHANGED << other, api_token, url, settings, revision, file_saved, cookie, result, store,
                    trashed, attachment_path, file_path, tfiles, tfile, idx, data, err >>

\* process_result lines 183-187
CatchAlertData ==
    /\ pc = "fd_catch"
    /\ log' = Append(log, Call("alert", << >>,
                               << "There was a problem saving message results: " >>
                               \o err.message, "ok", << >>))
    /\ pc' = "done"
    /\ UNCHANGED << other, api_token, url, settings, revision, file_saved, cookie, result, store,
                    trashed, attachment_path, file_path, tfiles, tfile, idx, data, err >>

NextData ==
    \/ ProcessStringData
    \/ GetConfigData
    \/ CreateRecordData
    \/ CreateData
    \/ ReturnData
    \/ SavedData
    \/ SuccessNoticeData
    \/ CatchAlertData

\* utils.ts holds both revisions: an invocation runs one or the other
InitRevisions == Init \/ InitData

NextRevisions == Next \/ NextData

SpecRevisions == InitRevisions /\ [][NextRevisions]_vars

-----------------------------------------------------------------------------
(* get_slack_message_modal_on_close_helper (lines 101-130) *)

\* null (or undefined) where a string is expected
Null == << "null" >>

\* if (s) for a string or null: null, undefined and "" are falsy
StrTruthy(s) == s # Null /\ s # << >>

ApiTokens     == { Null, << >>, << "t" >> }
HelperCookies == { Null, << >>, << "c", "1" >> }
Urls          == { Null, << >>, << "u" >> }

SettingsValues ==
    { DEFAULT_SETTINGS,
      [ get_users |-> TRUE, get_channel_info |-> FALSE,
        get_file_data |-> TRUE, get_team_info |-> FALSE ],
      [ get_users |-> FALSE, get_channel_info |-> TRUE,
        get_file_data |-> FALSE, get_team_info |-> TRUE ] }

\* lines 118-123: the feature flags handed to the fetch function
feature_flags(s) ==
    [ get_users |-> s.get_users, get_channel_info |-> s.get_channel_info,
      get_file_data |-> s.get_file_data, get_team_info |-> s.get_team_info ]

\* the vaults the helper is run on: with or without "a/m" and "a/f"
HelperStores ==
    { st \in InitStores : DOMAIN st \subseteq { << "a", "/", "m" >>, << "a", "/", "f" >> } }

\* the helper's local result before the fetch function has returned
NoResult == [is_string |-> FALSE, text |-> << >>, props |-> << >>]

InitHelper ==
    /\ api_token \in ApiTokens
    /\ url \in Urls
    /\ settings \in SettingsValues
    /\ revision = "file_links"
    /\ file_saved = FALSE
    /\ cookie \in HelperCookies
    /\ result = NoResult
    /\ store \in HelperStores
    /\ trashed = {}
    /\ pc = "h_start"
    /\ attachment_path = << >>
    /\ file_path = << >>
    /\ tfiles = << >>
    /\ tfile = UndefinedHandle
    /\ idx = 1
    /\ data = << >>
    /\ err = NoError
    /\ log = << >>
    /\ other = NoOther

\* HelperValidate with || in place of &&: one credential is enough
HelperValidateOr ==
    /\ pc = "h_start"
    /\ IF StrTruthy(api_token) \/ StrTruthy(cookie)
       THEN /\ pc' = IF StrTruthy(url) THEN "h_fetch" ELSE "h_done"
            /\ UNCHANGED log
       ELSE /\ log' = Append(log, Call("alert", << >>,
                         << "apiToken or cookie or url was null, undefined, or empty. Aborting operation" >>,
                         "ok", << >>))
            /\ pc' = "h_done"
    /\ UNCHANGED << other, api_token, url, settings, revision, file_saved, cookie, result, store,
                    trashed, attachment_path, file_path, tfiles, tfile, idx, data, err >>

\* lines 115-117 and 127-129
HelperValidate ==
    /\ pc = "h_start"
    /\ IF StrTruthy(api_token) /\ StrTruthy(cookie)
       THEN /\ pc' = IF StrTruthy(url) THEN "h_fetch" ELSE "h_done"
            /\ UNCHANGED log
       ELSE /\ log' = Append(log, Call("alert", << >>,
                         << "apiToken or cookie or url was null, undefined, or empty. Aborting operation" >>,
                         "ok", << >>))
            /\ pc' = "h_done"
    /\ UNCHANGED << other, api_token, url, settings, revision, file_saved, cookie, result, store,
                    trashed, attachment_path, file_path, tfiles, tfile, idx, data, err >>

\* lines 118-123: await get_slack_message_func(...); it resolves to a string
\* or to a structured result, or it rejects and the helper rejects with it
HelperFetch ==
    /\ pc = "h_fetch"
    /\ \E out \in { "ok" } \cup Failures :
         \E r \in (IF out = "ok" THEN Results ELSE { NoResult }) :
            /\ log' = Append(log, Call("get_slack_message_func", url,
                                       [api_token |-> api_token, cookie |-> cookie,
                                        feature_flags |-> feature_flags(settings)],
                                       out, r))
            /\ result' = r
            /\ pc' = IF out = "ok" THEN "h_process" ELSE "h_rejected"
    /\ UNCHANGED << other, api_token, url, settings, revision, file_saved, cookie, store,
                    trashed, attachment_path, file_path, tfiles, tfile, idx, data, err >>

\* HelperProcess handing the api token to process_result in place of the cookie
HelperProcessWithToken ==
    /\ pc = "h_process"
    /\ log' = Append(log, Call("process_result", << >>,
                               [cookie |-> api_token, result |-> result], "ok", << >>))
    /\ cookie' = api_token
    /\ pc' = "start"
    /\ UNCHANGED << other, api_token, url, settings, revision, file_saved, result, store,
                    trashed, attachment_path, file_path, tfiles, tfile, idx, data, err >>

\* line 125: await mod.process_result(cookie, result, vault)
HelperProcess ==
    /\ pc = "h_process"
    /\ log' = Append(log, Call("process_result", << >>,
                               [cookie |-> cookie, result |-> result], "ok", << >>))
    /\ pc' = "start"
    /\ UNCHANGED << other, api_token, url, settings, revision, file_saved, cookie, result, store,
                    trashed, attachment_path, file_path, tfiles, tfile, idx, data, err >>

\* lines 126-130: process_result has resolved and the helper resolves
HelperReturn ==
    /\ pc = "done"
    /\ pc' = "h_done"
    /\ UNCHANGED << other, api_token, url, settings, revision, file_saved, cookie, result, store,
                    trashed, attachment_path, file_path, tfiles, tfile, idx, data, err,
                    log >>

NextHelper ==
    \/ HelperValidate
    \/ HelperFetch
    \/ HelperProcess
    \/ HelperReturn
    \/ Next

SpecHelper == InitHelper /\ [][NextHelper]_vars

-----------------------------------------------------------------------------
(* process_result with mod.save_result replaced (line 33 calls save_result
   through the module object, which the tests use to put a stub in its place) *)

\* line 33 with a stub for save_result: it resolves to true or to false, or
\* it rejects
SaveResultStub ==
    /\ pc = "start"
    /\ ~ result.is_string
    /\ \E out \in { "ok" } \cup Failures :
         \E saved \in (IF out = "ok" THEN BOOLEAN ELSE { FALSE }) :
            /\ log' = Append(log, Call("save_result", << >>,
                                       [cookie |-> cookie, result |-> result],
                                       out, saved))
            /\ IF out = "ok"
               THEN /\ file_saved' = saved
                    /\ pc' = "saved"
                    /\ UNCHANGED err
               ELSE Throw(Thrown(out)) /\ UNCHANGED file_saved
    /\ UNCHANGED << other, api_token, url, settings, revision, cookie, result, store, trashed,
                    attachment_path, file_path, tfiles, tfile, idx, data >>

NextStub ==
    \/ ProcessString
    \/ SaveResultStub
    \/ Saved
    \/ SuccessNotice
    \/ CatchAlert

SpecStub == Init /\ [][NextStub]_vars

-----------------------------------------------------------------------------
(* Reading the log *)

Idx(op)      == { k \in 1..Len(log) : log[k].op = op }
Count(op)    == Cardinality(Idx(op))
Signals      == Idx("Notice") \cup Idx("alert")
StoreOps     == { "getConfig", "create", "createBinary", "getFiles", "trash" }
Writes       == Idx("create") \cup Idx("createBinary")
Completed    == pc = "done"
\* the number of attachment references of the result
NumLinks     == IF Truthy(FileLinks) THEN Len(LinkEntries) ELSE 0

-----------------------------------------------------------------------------
(* Claims *)

\* C1: for a string result the only call process_result ever makes is one
\* alert carrying that string: no file-store call, no requestUrl, no
\* clipboard write and no Notice.
C1_StringResultOnlyAlerts ==
    result.is_string =>
        /\ Len(log) <= 1
        /\ \A k \in 1..Len(log) : log[k].op = "alert" /\ log[k].arg = result.text
        /\ Completed => Len(log) = 1
        /\ store \in InitStores /\ trashed = {}

C1_Witness ==
    result.is_string /\ Completed /\ Count("alert") = 1

\* C2: a completed invocation has emitted exactly one signal, a Notice or an
\* alert; a Notice directly follows a clipboard write that resolved; and a
\* signal is never followed by another call, so none is emitted before the
\* last file-store or network call.
C2_ExactlyOneTerminalSignal ==
    /\ Cardinality(Signals) <= 1
    /\ \A k \in Signals : k = Len(log)
    /\ Completed <=> Cardinality(Signals) = 1
    /\ \A k \in Idx("Notice") :
          k > 1 /\ log[k - 1].op = "writeText" /\ log[k - 1].out = "ok"

C2_Witness ==
    /\ Completed /\ Truthy(FileName) /\ Count("Notice") = 1 /\ Count("createBinary") >= 1
    /\ \E k \in 1..Len(log) : log[k].out \in Failures

\* shared vocabulary of the claims below
Structured     == ~ result.is_string
\* a structured result as the data model has it: with a non-empty file_name
WellFormed     == Structured /\ Truthy(FileName)
NoAttachments  == NumLinks = 0 /\ FileData.tag = "Undefined"
PrimaryPath    == PathJoin(attachment_path, FileName.str)
AttachmentKeys ==
    { LinkEntries[k][1] : k \in 1..NumLinks }
    \cup { FileData.entries[k][1] : k \in 1..Len(FileData.entries) }
\* the first and the last call of an operation (0 when there is none)
First(op) == IF Idx(op) = {} THEN 0
             ELSE CHOOSE k \in Idx(op) : \A j \in Idx(op) : k <= j
Last(op)  == IF Idx(op) = {} THEN 0
             ELSE CHOOSE k \in Idx(op) : \A j \in Idx(op) : k >= j
FirstCreateIs(outs) == First("create") # 0 /\ log[First("create")].out \in outs
NoFailure == \A k \in 1..Len(log) : log[k].out \notin Failures
AllOk     == \A k \in 1..Len(log) : log[k].out = "ok"

\* C3: every failure of a file-store, fetch or clipboard call (other than a
\* collision, which is recovered) ends in an alert of process_result.
C3_EveryFailureIsAlerted ==
    ( /\ Completed /\ WellFormed
      /\ \E k \in 1..Len(log) :
            /\ log[k].op \in StoreOps \cup { "requestUrl", "writeText" }
            /\ log[k].out \in Failures )
    => Count("alert") = 1

\* C4 as stated: no attachments and a first primary create that succeeds
\* give one getConfig, one create at join(root, file_name), one clipboard
\* write, one Notice and no alert.
C4_AsStated ==
    ( Completed /\ WellFormed /\ NoAttachments /\ FirstCreateIs({ "ok" }) )
    => /\ Count("getConfig") = 1
       /\ Count("create") = 1
       /\ log[First("create")].path =
              PathJoin(log[First("getConfig")].ret, FileName.str)
       /\ Count("writeText") = 1
       /\ Count("Notice") = 1
       /\ Count("alert") = 0

\* C4 amended: no attachments and a first primary create that succeeds give
\* one getConfig, one create at join(root, file_name) with the serialized
\* record, one clipboard write of file_name and no other file-store or
\* network call; one Notice and no alert when the clipboard write resolves,
\* one alert and no Notice when it rejects.
C4_NoAttachmentsSuccess ==
    ( Completed /\ Structured /\ NoAttachments /\ FirstCreateIs({ "ok" }) )
    => /\ Count("getConfig") = 1
       /\ Count("create") = 1
       /\ log[First("create")].path =
              PathJoin(log[First("getConfig")].ret, FileName.str)
       /\ Count("writeText") = 1
       /\ log[First("writeText")].arg = FileName.str
       /\ Len(log) = 4
       /\ IF log[First("writeText")].out = "ok"
          THEN Count("Notice") = 1 /\ Count("alert") = 0
          ELSE Count("Notice") = 0 /\ Count("alert") = 1

C4_Witness ==
    /\ Completed /\ WellFormed /\ NoAttachments /\ FirstCreateIs({ "ok" })
    /\ Count("Notice") = 1
    /\ attachment_path # << >>

\* C5: a successful invocation in which every call succeeded made one create
\* for the primary record, one createBinary and one requestUrl per attachment
\* reference (N + 1 writes, N fetches) and one clipboard write.
C5_WritesAndFetchesPerAttachment ==
    ( Completed /\ Structured /\ AllOk /\ Count("Notice") = 1 )
    => /\ Count("create") = 1
       /\ Count("createBinary") = NumLinks
       /\ Cardinality(Writes) = NumLinks + 1
       /\ Count("requestUrl") = NumLinks
       /\ Count("writeText") = 1

C5_Witness ==
    /\ Completed /\ WellFormed /\ AllOk /\ Count("Notice") = 1
    /\ NumLinks = MaxLinks
    /\ Count("createBinary") = MaxLinks

\* C6: in a successful invocation the clipboard write comes after every
\* successful file-store write and before the Notice; and no clipboard write
\* is made once a create, createBinary, trash, getFiles or requestUrl call
\* has failed (a collision, which is recovered, not counted).
C6_ClipboardOnlyAfterCleanWrites ==
    WellFormed =>
        /\ Count("Notice") = 1 =>
              \A w \in Idx("writeText") :
                  /\ \A k \in Writes : log[k].out = "ok" => k < w
                  /\ \A n \in Idx("Notice") : w < n
        /\ ( \E k \in 1..Len(log) :
                /\ log[k].op \in { "create", "createBinary", "trash",
                                   "getFiles", "requestUrl" }
                /\ log[k].out \in Failures )
           => Count("writeText") = 0

\* C7: once success is reported the vault holds the serialized record at
\* join(root, file_name) and a file at join(root, key) for every attachment
\* key of the result; stated here for results with attachment links and runs
\* in which no call failed but for collisions.
C7_SuccessMeansFilesStored ==
    ( WellFormed /\ FileData.tag = "Undefined" /\ NoFailure /\ Count("Notice") = 1 )
    => /\ PrimaryPath \in DOMAIN store
       /\ store[PrimaryPath] = result_data
       /\ \A key \in AttachmentKeys :
              PathJoin(attachment_path, key) \in DOMAIN store

\* the primary create failed with "File already exists" and its retry succeeded
PrimaryRecovered ==
    /\ Count("create") = 2
    /\ log[First("create")].out = "exists"
    /\ log[Last("create")].out = "ok"

\* between the two creates: one getFiles, then one trash, and nothing else;
\* the retry has the path and the content of the first create
RecoveryShape ==
    /\ Last("create") = First("create") + 3
    /\ log[First("create") + 1].op = "getFiles"
    /\ log[First("create") + 2].op = "trash"
    /\ \A k \in Idx("getFiles") \cup Idx("trash") : k > First("create")
    /\ log[Last("create")].path = log[First("create")].path
    /\ log[Last("create")].arg = log[First("create")].arg

\* C8 as stated: a primary create that collides and whose retry succeeds has
\* one getFiles and one trash between the two creates, the same path and
\* content in both, and the invocation ends in success with no alert.
C8_AsStated ==
    ( Completed /\ WellFormed /\ PrimaryRecovered )
    => /\ RecoveryShape
       /\ Count("Notice") = 1
       /\ Count("alert") = 0

\* C8 amended: a primary create that collides and whose retry succeeds has
\* one getFiles and one trash between the two creates and the same path and
\* content in both; the invocation ends in success with no alert when every
\* call after the retry succeeds.
C8_CollisionRecovery ==
    ( Completed /\ Structured /\ PrimaryRecovered )
    => /\ RecoveryShape
       /\ ( \A k \in (Last("create") + 1)..Len(log) : log[k].out = "ok" )
          => Count("Notice") = 1 /\ Count("alert") = 0

C8_Witness ==
    /\ Completed /\ WellFormed /\ PrimaryRecovered
    /\ Count("Notice") = 1
    /\ NumLinks >= 1

\* C9: when the primary phase is over and nothing but collisions went wrong,
\* the primary path holds the serialized record whether or not the path
\* existed before, and a path that existed cost exactly one trash.
C9_CollisionIdempotence ==
    ( /\ WellFormed
      /\ pc \in { "requestUrl", "return", "saved", "notice", "catch", "done" }
      /\ Count("create") >= 1
      /\ Count("requestUrl") = 0
      /\ NoFailure )
    => /\ PrimaryPath \in DOMAIN store
       /\ store[PrimaryPath] = result_data
       /\ FirstCreateIs({ "exists" }) => Count("trash") = 1

\* C10: a primary create that fails for another reason than a collision
\* aborts the operation: no fetch, no createBinary, no trash, no clipboard
\* write, and one alert.
C10_PrimaryFailureAborts ==
    ( Completed /\ WellFormed /\ FirstCreateIs(Failures) )
    => /\ Count("requestUrl") = 0
       /\ Count("createBinary") = 0
       /\ Count("trash") = 0
       /\ Count("writeText") = 0
       /\ Count("alert") = 1

\* call k is a createBinary that failed for good: with a failure that is not
\* a collision, or as the retry that follows the trash of a collision
AttachmentWriteFailed(k) ==
    /\ log[k].op = "createBinary"
    /\ \/ log[k].out \in Failures
       \/ log[k].out # "ok" /\ k > 1 /\ log[k - 1].op = "trash"

\* C11: when the write of an attachment fails (not a collision, or the retry
\* after a collision), no fetch and no write follows it, the primary record
\* stays in the vault, there is no clipboard write and no Notice, and one
\* alert is emitted.
C11_AttachmentFailureAborts ==
    ( Completed /\ WellFormed /\ FirstCreateIs({ "ok" }) )
    => \A k \in 1..Len(log) :
          AttachmentWriteFailed(k) =>
              /\ \A j \in (k + 1)..Len(log) :
                    log[j].op \notin { "requestUrl", "createBinary", "create" }
              /\ PrimaryPath \in DOMAIN store
              /\ Count("writeText") = 0
              /\ Count("Notice") = 0
              /\ Count("alert") = 1

\* a requestUrl call of the invocation failed
FetchFailed == \E k \in Idx("requestUrl") : log[k].out # "ok"

\* C12: a failed requestUrl is the last fetch and is followed by nothing but
\* the alert of process_result: no retry, no createBinary for its attachment
\* nor fetch or write for a later one, no clipboard write and no Notice; from
\* the failure on the vault is left as it is (nothing written earlier is
\* removed), and the invocation ends with one alert.
C12_FetchFailureAborts ==
    [][ FetchFailed' =>
          /\ store' = store
          /\ trashed' = trashed
          /\ \A k \in Idx("requestUrl")' :
                log'[k].out # "ok" =>
                    \A j \in (k + 1)..Len(log') : log'[j].op = "alert"
          /\ Count("writeText")' = 0
          /\ Count("Notice")' = 0
          /\ Count("alert")' <= 1
          /\ Completed' => Count("alert")' = 1 ]_vars

C12_Witness ==
    /\ Completed /\ WellFormed /\ FetchFailed
    /\ Count("createBinary") >= 1
    /\ Count("alert") = 1
    /\ \E k \in Writes : log[k].out = "ok" /\ log[k].path \in DOMAIN store

\* the files of the initial vault that the invocation moved to the trash
TrashedOld == { t \in trashed : t[2] = OldText }

\* C13: a completed invocation that trashed a pre-existing file either ends
\* with an alert or holds, at the path of every file it trashed, a file
\* written by this invocation; so a success is never reported with a trashed
\* file missing.
C13_NoSilentDataLoss ==
    ( Completed /\ Structured /\ TrashedOld # {} )
    => \/ Count("alert") = 1
       \/ /\ Count("Notice") = 1
          /\ \A t \in TrashedOld :
                /\ t[1] \in DOMAIN store
                /\ store[t[1]] # OldText
                /\ \E k \in Writes :
                      /\ log[k].out = "ok"
                      /\ log[k].path = t[1]
                      /\ log[k].arg = store[t[1]]

C13_Witness ==
    /\ Completed /\ WellFormed /\ Count("Notice") = 1
    /\ Cardinality(TrashedOld) = 2
    /\ \A t \in TrashedOld : t[1] \in DOMAIN store /\ store[t[1]] # OldText

\* the call made last is a create (the log only grows, one call at a time, so
\* every create is the call made last in some state)
JustCreated == log # << >> /\ log[Len(log)].op = "create"

\* the create calls that write the primary record: the first create of the
\* file_data revision (its later creates write file_data entries), every
\* create of the file_links revision (the first and its retry)
PrimaryCreates ==
    { k \in Idx("create") : revision = "file_links" \/ k = First("create") }

\* the JSON text has a member named f
HasField(text, f) == Includes(text, << f, ":" >>)

\* the attachment URLs and the inline attachment contents of the result
LinkUrls   == { LinkEntries[k][2] : k \in 1..NumLinks }
InlineData == { FileData.entries[k][2] : k \in 1..Len(FileData.entries) }

C15_ClipboardIsFileName ==
    ( Completed /\ WellFormed /\ Count("Notice") = 1 )
    => /\ Count("writeText") = 1
       /\ log[First("writeText")].arg = FileName.str
       /\ log[First("create")].path =
              PathJoin(log[First("getConfig")].ret, log[First("writeText")].arg)

\* the requestUrl call that comes last before call c (0 when there is none)
FetchBefore(c) ==
    LET before == { f \in 1..(c - 1) : log[f].op = "requestUrl" }
    IN  IF before = {} THEN 0
        ELSE CHOOSE f \in before : \A g \in before : g <= f

\* call f is the n-th requestUrl of the invocation
FetchRank(f) == Cardinality({ g \in 1..f : log[g].op = "requestUrl" })

\* the call made last is a call of op
JustCalled(op) == log # << >> /\ log[Len(log)].op = op

\* C16: the n-th fetch of an invocation asks for the url of the n-th
\* attachment with method GET and the one header cookie = "d=" + cookie;
\* every createBinary goes to join(root, name) of the attachment fetched last
\* and is given the bytes that fetch returned; a successful run without
\* failure fetches every attachment. (The log only grows, one call at a time:
\* every call is the call made last in some state.)
C16_FetchAndBytes ==
    Structured =>
        /\ JustCalled("requestUrl") =>
              LET f == Len(log)
                  n == FetchRank(f)
              IN  /\ n <= NumLinks
                  /\ log[f].path = LinkEntries[n][2]
                  /\ log[f].arg = << "GET", "cookie", ":", "d", "=" >> \o cookie
        /\ JustCalled("createBinary") =>
              LET c == Len(log)
                  f == FetchBefore(c)
              IN  /\ f # 0
                  /\ log[f].out = "ok"
                  /\ log[1].op = "getConfig"
                  /\ log[c].path = PathJoin(log[1].ret, LinkEntries[FetchRank(f)][1])
                  /\ log[c].arg = log[f].ret
        /\ ( Completed /\ AllOk /\ Count("Notice") = 1 ) => Count("requestUrl") = NumLinks

C16_Witness ==
    /\ Completed /\ WellFormed /\ Count("Notice") = 1
    /\ NumLinks = MaxLinks
    /\ Count("createBinary") > MaxLinks
    /\ \E f, g \in Idx("requestUrl") : log[f].ret # log[g].ret
    /\ log[First("getConfig")].ret # << >>

\* the JSON text of a list of [key, value] pairs of strings
RECURSIVE EntriesText(_)
EntriesText(es) ==
    IF es = << >> THEN << >>
    ELSE << "[", "\"" >> \o es[1][1] \o << "\"", ",", "\"" >> \o es[1][2] \o << "\"", "]" >>
         \o (IF Len(es) > 1 THEN << "," >> ELSE << >>)
         \o EntriesText(Tail(es))

\* the JSON text of an object with a type member and a member for the entries
MapForm(typeKey, typeName, entriesKey, es) ==
    << "{", typeKey, ":", typeName, ",", entriesKey, ":", "[" >>
    \o EntriesText(es) \o << "]", "}" >>

\* the properties of the result that are not a Map come out of the replacer
\* as they went in, and their text in the record is that of the plain value
NonMapUnchanged(text) ==
    /\ \A k \in 1..Len(result.props) :
          result.props[k][2].tag # "Map" =>
              replacer(result.props[k][1], result.props[k][2]) = result.props[k][2]
    /\ FileName.tag = "String" =>
          Includes(text, << "file_name", ":", "\"" >> \o FileName.str \o << "\"" >>)
    /\ Includes(text, << "message_and_thread", ":", "{", "}" >>)

HelperDone == pc = "h_done"

\* C18: the fetch function and process_result are called only when
\* api_token, cookie and url are all non-empty; with api_token or cookie null
\* or empty the helper makes one alert and no other call, whatever the url;
\* with both credentials and an empty url it makes no call at all.
C18_HelperValidates ==
    /\ ( Count("get_slack_message_func") > 0 \/ Count("process_result") > 0 )
       => /\ api_token \notin { Null, << >> }
          /\ cookie \notin { Null, << >> }
          /\ url \notin { Null, << >> }
    /\ ( api_token \in { Null, << >> } \/ cookie \in { Null, << >> } )
       => /\ Len(log) <= 1
          /\ \A k \in 1..Len(log) : log[k].op = "alert"
          /\ HelperDone <=> Len(log) = 1
    /\ ( api_token \notin { Null, << >> } /\ cookie \notin { Null, << >> }
         /\ url \in { Null, << >> } )
       => Len(log) = 0

C18_Witness ==
    /\ HelperDone
    /\ api_token = << "t" >> /\ cookie = << >> /\ url = << "u" >>
    /\ Count("alert") = 1

SavedFalse ==
    \E k \in Idx("save_result") : log[k].out = "ok" /\ log[k].ret = FALSE

\* C20: when save_result resolves to false for a structured result,
\* process_result makes no clipboard write and no Notice, and ends with the
\* one alert "File saving was unsuccessful".
C20_UnsuccessfulSaveAlerts ==
    ( Structured /\ SavedFalse )
    => /\ Count("writeText") = 0
       /\ Count("Notice") = 0
       /\ Count("alert") <= 1
       /\ Count("save_result") = 1
       /\ Completed <=> Count("alert") = 1
       /\ \A a \in Idx("alert") :
             log[a].arg = << "File saving was unsuccessful" >> /\ a = Len(log)

C20_Witness ==
    /\ Completed /\ WellFormed /\ SavedFalse
    /\ Count("alert") = 1
    /\ Len(log) = 2

\* the result carries inline attachment data and no attachment links
InlineOnly ==
    /\ FileData.tag = "Object" /\ Len(FileData.entries) >= 1
    /\ FileLinks.tag = "Undefined"

\* every entry of file_data was written by a create that came after the
\* first create, at join(root, name) and with the content of the entry
InlineWritten ==
    \A e \in 1..Len(FileData.entries) :
        \E k \in Idx("create") :
            /\ k > First("create")
            /\ log[k].out = "ok"
            /\ log[k].path = PathJoin(log[1].ret, FileData.entries[e][1])
            /\ log[k].arg = FileData.entries[e][2]

\* C21: a successful invocation without failure on a result with inline
\* attachment data has written every entry at join(root, name) with its content, after the
\* primary record, and has made no fetch.
C21_InlineDataWritten ==
    ( Completed /\ WellFormed /\ InlineOnly /\ NoFailure /\ Count("Notice") = 1 )
    => /\ InlineWritten
       /\ Count("requestUrl") = 0

\* the attachment that call k works for: the rank of the fetch made last up
\* to k (0 before the first fetch)
AttachmentOf(k) == FetchRank(k)

\* the call made last continues the work on the attachments in order: a fetch
\* is for the attachment after that of the call before it, whose create or
\* createBinary has ended; a createBinary, getFiles or trash made after a
\* fetch is for the attachment of that fetch and follows the call that the
\* code makes before it
InLoopOrder ==
    LET n == Len(log)
        a == AttachmentOf(n)
    IN  /\ JustCalled("requestUrl") =>
              /\ n > 1
              /\ a <= NumLinks
              /\ log[n].path = LinkEntries[a][2]
              /\ AttachmentOf(n - 1) = a - 1
              /\ log[n - 1].op = IF a = 1 THEN "create" ELSE "createBinary"
              /\ log[n - 1].out \in { "ok", "nonerror" }
        /\ JustCalled("createBinary") =>
              /\ a >= 1
              /\ log[n].path = PathJoin(log[1].ret, LinkEntries[a][1])
              /\ \/ log[n - 1].op = "requestUrl" /\ log[n - 1].out = "ok"
                 \/ log[n - 1].op = "trash" /\ log[n - 1].out = "ok"
        /\ ( JustCalled("getFiles") /\ a >= 1 ) =>
              log[n - 1].op = "createBinary" /\ log[n - 1].out = "exists"
        /\ ( JustCalled("trash") /\ a >= 1 ) =>
              log[n - 1].op = "getFiles" /\ log[n - 1].out = "ok"

\* C22: every step makes at most one call, which has ended when the step is
\* over, and the calls come in the order of the loop: fetch, createBinary and
\* recovery (getFiles, trash, createBinary) of attachment i, then the fetch
\* of attachment i + 1, in the order of the entries of file_links.
C22_SequentialAttachments ==
    [][ log' # log =>
          /\ Len(log') = Len(log) + 1
          /\ SubSeq(log', 1, Len(log)) = log
          /\ Structured' => InLoopOrder' ]_vars

C22_Witness ==
    /\ Completed /\ WellFormed /\ Count("Notice") = 1
    /\ NumLinks = MaxLinks
    /\ Count("requestUrl") = MaxLinks
    /\ \E t \in Idx("trash") : \E f \in Idx("requestUrl") :
          AttachmentOf(t) = 1 /\ t < f

\* C23: getConfig is called once and before any create; a requestUrl or a
\* createBinary is made only after a create of the primary record has
\* succeeded; the root that getConfig returned is the folder of the primary
\* path and of every attachment path.
C23_StepsInOrder ==
    WellFormed =>
        /\ Count("getConfig") <= 1
        /\ \A k \in 1..Len(log) :
              log[k].op = "create" => k > 1 /\ log[1].op = "getConfig"
        /\ \A k \in 1..Len(log) :
              log[k].op \in { "requestUrl", "createBinary" } =>
                  \E j \in 1..(k - 1) : log[j].op = "create" /\ log[j].out = "ok"
        /\ \A k \in 1..Len(log) :
              log[k].op = "create" => log[k].path = PathJoin(log[1].ret, FileName.str)
        /\ \A k \in 1..Len(log) :
              log[k].op = "createBinary" =>
                  \E e \in 1..NumLinks :
                      log[k].path = PathJoin(log[1].ret, LinkEntries[e][1])

\* the first createBinary of an attachment (the call after its fetch) that
\* failed with 'File already exists'
AttachmentCollisions ==
    { k \in Idx("createBinary") : log[k].out = "exists" /\ log[k - 1].op = "requestUrl" }

\* the calls made for the attachment of call k
CallsFor(k, op) == { j \in Idx(op) : AttachmentOf(j) = AttachmentOf(k) }

\* the call that follows a successful write of attachment a: the fetch of the
\* next attachment or, after the last one, the clipboard write
AfterAttachment(j, a) ==
    IF a < NumLinks
    THEN log[j].op = "requestUrl" /\ log[j].path = LinkEntries[a + 1][2]
    ELSE log[j].op = "writeText"

\* C24 as stated: in a completed invocation every attachment whose
\* createBinary failed with 'File already exists' has exactly one trash and
\* one retry of createBinary with the same path and bytes, and one fetch.
C24_AsStated ==
    ( Completed /\ WellFormed )
    => \A k \in AttachmentCollisions :
          /\ Cardinality(CallsFor(k, "trash")) = 1
          /\ Cardinality(CallsFor(k, "createBinary")) = 2
          /\ Cardinality(CallsFor(k, "requestUrl")) = 1
          /\ \A j \in CallsFor(k, "createBinary") :
                log[j].path = log[k].path /\ log[j].arg = log[k].arg

\* call k is the first createBinary of an attachment and failed with 'File
\* already exists'
Collided(k) ==
    /\ k > 1
    /\ log[k].op = "createBinary" /\ log[k].out = "exists"
    /\ log[k - 1].op = "requestUrl"

\* the calls of op made from the fetch made last up to now
SinceFetch(op) == { j \in FetchBefore(Len(log) + 1)..Len(log) : log[j].op = op }

\* C24 amended: a createBinary that failed with 'File already exists' is
\* followed by getFiles; when the listing succeeds, by one trash; when the
\* trash succeeds, by one createBinary with the same path and the same bytes;
\* the attachment is fetched once and has at most one trash and two
\* createBinary calls; after a successful retry the next call is the fetch of
\* the next attachment or, after the last attachment, the clipboard write.
\* (The log only grows, one call at a time: every call is the call made last
\* in some state.)
C24_AttachmentRecovery ==
    Structured =>
        LET n == Len(log)
        IN  /\ JustCalled("requestUrl") =>
                  \A j \in 1..(n - 1) :
                      log[j].op = "requestUrl" => log[j].path # log[n].path
            /\ ( JustCalled("trash") /\ AttachmentOf(n) > 0 ) =>
                  Cardinality(SinceFetch("trash")) <= 1
            /\ JustCalled("createBinary") =>
                  Cardinality(SinceFetch("createBinary")) <= 2
            /\ ( n > 1 /\ Collided(n - 1) ) => log[n].op = "getFiles"
            /\ ( n > 2 /\ Collided(n - 2) /\ log[n - 1].out = "ok" )
               => log[n].op = "trash"
            /\ ( n > 3 /\ Collided(n - 3) /\ log[n - 2].out = "ok"
                 /\ log[n - 1].out = "ok" )
               => /\ log[n].op = "createBinary"
                  /\ log[n].path = log[n - 3].path
                  /\ log[n].arg = log[n - 3].arg
            /\ ( n > 4 /\ Collided(n - 4) /\ log[n - 3].out = "ok"
                 /\ log[n - 2].out = "ok" /\ log[n - 1].out = "ok" )
               => AfterAttachment(n, AttachmentOf(n - 4))

C24_Witness ==
    /\ Completed /\ WellFormed /\ Count("Notice") = 1 /\ Count("alert") = 0
    /\ NumLinks = MaxLinks
    /\ \E k \in AttachmentCollisions :
          /\ AttachmentOf(k) = 1
          /\ log[k + 3].op = "createBinary" /\ log[k + 3].out = "ok"
          /\ log[k + 4].op = "requestUrl"

\* the retries: the create or createBinary made right after a trash
Retries ==
    { k \in Idx("create") \cup Idx("createBinary") : k > 1 /\ log[k - 1].op = "trash" }

\* call k is a retry that failed
FailedRetry(k) ==
    /\ k > 1
    /\ log[k].op \in { "create", "createBinary" } /\ log[k].out # "ok"
    /\ log[k - 1].op = "trash"

\* C25: a retry that fails, with 'File already exists' or otherwise, is
\* followed by nothing but the one alert that ends the invocation; an
\* invocation makes at most 2 create calls and, with N attachments, at most
\* 2N createBinary calls (2 per attachment), N + 1 trash calls and N fetches.
\* (The log only grows, one call at a time: every call is the call made last
\* in some state.)
C25_RetriedAtMostOnce ==
    Structured =>
        LET n == Len(log)
        IN  /\ JustCalled("create") => Count("create") <= 2
            /\ JustCalled("createBinary") =>
                  /\ Count("createBinary") <= 2 * NumLinks
                  /\ Cardinality(SinceFetch("createBinary")) <= 2
            /\ JustCalled("trash") => Count("trash") <= NumLinks + 1
            /\ JustCalled("requestUrl") => Count("requestUrl") <= NumLinks
            /\ ( n > 0 /\ FailedRetry(n) ) => pc = "catch"
            /\ ( n > 1 /\ FailedRetry(n - 1) ) =>
                  /\ log[n].op = "alert" /\ Count("alert") = 1
                  /\ Completed
            /\ n > 1 => log[n - 1].op # "alert"

C25_Witness ==
    /\ Completed /\ WellFormed /\ NumLinks = MaxLinks
    /\ Count("create") = 2
    /\ \E k \in Retries :
          /\ log[k].op = "createBinary" /\ log[k].out = "exists"
          /\ AttachmentOf(k) = MaxLinks
          /\ log[Len(log)].op = "alert"

\* the getFiles and trash calls that failed
RecoveryFailures ==
    { k \in Idx("getFiles") \cup Idx("trash") : log[k].out # "ok" }

\* call k is a getFiles or a trash that failed
FailedRecovery(k) ==
    log[k].op \in { "getFiles", "trash" } /\ log[k].out # "ok"

\* C26: a getFiles or a trash that fails during a collision recovery is
\* followed by no call but the one alert that ends the invocation: no retry
\* of the create, no fetch, no write, no clipboard write, no Notice. (The log
\* only grows, one call at a time: every call is the call made last in some
\* state.)
C26_RecoveryFailureAborts ==
    Structured =>
        LET n == Len(log)
        IN  /\ ( n > 0 /\ FailedRecovery(n) ) =>
                  /\ pc = "catch"
                  /\ Count("writeText") = 0 /\ Count("Notice") = 0
            /\ ( n > 1 /\ FailedRecovery(n - 1) ) =>
                  /\ log[n].op = "alert" /\ Count("alert") = 1
                  /\ Count("writeText") = 0 /\ Count("Notice") = 0
                  /\ Completed
            /\ n > 1 => log[n - 1].op \notin { "alert", "Notice" }

C26_Witness ==
    /\ Completed /\ WellFormed /\ NumLinks = MaxLinks
    /\ \E k \in RecoveryFailures :
          /\ log[k].op = "trash" /\ AttachmentOf(k) = 1
          /\ log[k].path \in DOMAIN store
    /\ Count("requestUrl") = 1 /\ Count("alert") = 1

\* C27: the handle given to the trash made last is a file of the vault
\* whose path is the path of the create that just failed, and a successful
\* trash removes that file and no other.
C27_TrashesOnlyTheCollidingFile ==
    ( WellFormed /\ JustCalled("trash") ) =>
        LET n == Len(log)
        IN  /\ n >= 3
            /\ log[n - 2].op \in { "create", "createBinary" }
            /\ log[n].path = log[n - 2].path
            /\ \A t \in trashed : t[1] \in { log[k].path : k \in Writes }

-----------------------------------------------------------------------------
(* Two invocations of process_result on one vault *)

\* the arguments, locals, position and calls of the invocation that runs
Running ==
    [ cookie |-> cookie, result |-> result, pc |-> pc,
      attachment_path |-> attachment_path, file_path |-> file_path,
      tfiles |-> tfiles, tfile |-> tfile, idx |-> idx, data |-> data,
      err |-> err, file_saved |-> file_saved, log |-> log ]

\* an invocation that has been asked for and has not run yet
NotStarted(c, r) ==
    [ cookie |-> c, result |-> r, pc |-> "start",
      attachment_path |-> << >>, file_path |-> << >>,
      tfiles |-> << >>, tfile |-> UndefinedHandle, idx |-> 1, data |-> << >>,
      err |-> NoError, file_saved |-> FALSE, log |-> << >> ]

\* { file_name: "m" }, { file_name: "m", file_links: Map{"f" => "u:f"} } and
\* { file_name: "mx" }, each with message_and_thread: {}
RecordM      == ObjectResult(StringValue(<< "m" >>), Undefined, Undefined)
RecordMLinks ==
    ObjectResult(StringValue(<< "m" >>),
                 MapValue(<< << << "f" >>, UrlOf(<< "f" >>) >> >>), Undefined)
RecordMX     == ObjectResult(StringValue(<< "m", "x" >>), Undefined, Undefined)

\* two results with the same file_name, two results with different names
ResultPairs == { << RecordMLinks, RecordM >>, << RecordMLinks, RecordMX >> }

PairStores ==
    UNION { [P -> { OldText }] :
              P \in SUBSET { << "a", "/", "m" >>, << "a", "/", "m", "x" >>,
                             << "a", "/", "f" >>, << "m" >> } }

InitPair ==
    /\ api_token = << >>
    /\ url = << >>
    /\ settings = DEFAULT_SETTINGS
    /\ revision = "file_links"
    /\ file_saved = FALSE
    /\ cookie = << "c", "1" >>
    /\ \E rs \in ResultPairs :
          /\ result = rs[1]
          /\ other = NotStarted(<< "c", "1" >>, rs[2])
    /\ store \in PairStores
    /\ trashed = {}
    /\ pc = "start"
    /\ attachment_path = << >>
    /\ file_path = << >>
    /\ tfiles = << >>
    /\ tfile = UndefinedHandle
    /\ idx = 1
    /\ data = << >>
    /\ err = NoError
    /\ log = << >>

\* the invocation that runs waits at an await (lines 33, 36, 58, 63, 64, 79,
\* 83, 88, 89) and the other one goes on: each call on the vault takes effect
\* at some moment between its start and the resumption of its caller, so the
\* calls of the two invocations come in any order
Switch ==
    /\ other.pc \notin { "none", "done" }
    /\ other' = Running
    /\ cookie' = other.cookie
    /\ result' = other.result
    /\ pc' = other.pc
    /\ attachment_path' = other.attachment_path
    /\ file_path' = other.file_path
    /\ tfiles' = other.tfiles
    /\ tfile' = other.tfile
    /\ idx' = other.idx
    /\ data' = other.data
    /\ err' = other.err
    /\ file_saved' = other.file_saved
    /\ log' = other.log
    /\ UNCHANGED << api_token, url, settings, revision, store, trashed >>

\* the call that a step makes does not fail on its own account: it succeeds,
\* or it collides with a file that exists, or it is a trash of a file that is
\* not in the vault (any more)
Unforced ==
    LET call == log'[Len(log')]
    IN  \/ call.out \in { "ok", "exists" }
        \/ call.op \in { "alert", "Notice" }
        \/ call.op = "trash" /\ call.path \notin DOMAIN store

NextPair ==
    \/ Switch
    \/ GetConfig /\ Unforced
    \/ CreatePrimary /\ Unforced
    \/ GetFilesPrimary /\ Unforced
    \/ TrashPrimary /\ Unforced
    \/ RetryCreatePrimary /\ Unforced
    \/ RequestUrl /\ Unforced
    \/ CreateBinary /\ Unforced
    \/ GetFilesBinary /\ Unforced
    \/ TrashBinary /\ Unforced
    \/ RetryCreateBinary /\ Unforced
    \/ Return
    \/ Saved /\ Unforced
    \/ SuccessNotice
    \/ CatchAlert

SpecPair == InitPair /\ [][NextPair]_vars

\* both invocations have ended
BothDone == pc = "done" /\ other.pc = "done"

\* the two invocations were given the same attachment folder
SameRoot == attachment_path = other.attachment_path

\* C28: when two invocations for results with the same file_name have both
\* ended, the vault holds at the primary path the complete serialized record
\* of one of the two.
C28_LastWriterWins ==
    ( /\ BothDone /\ SameRoot
      /\ WellFormed /\ GetProp(other.result, "file_name") = FileName )
    => /\ PrimaryPath \in DOMAIN store
       /\ store[PrimaryPath] \in { result_data, JsonStringify(other.result) }

\* the paths that the invocation of log l has written
Written(l) ==
    { l[k].path : k \in { j \in 1..Len(l) :
                            l[j].op \in { "create", "createBinary" } /\ l[j].out = "ok" } }

\* the invocation of log l lists the vault before each trash, trashes no
\* file that the invocation of log o has written, and collides with no file
\* that it has written
Unconfused(l, o) ==
    \A k \in 1..Len(l) :
        /\ l[k].op = "trash" =>
              /\ k > 2 /\ l[k - 1].op = "getFiles"
              /\ l[k - 2].op \in { "create", "createBinary" } /\ l[k - 2].out = "exists"
              /\ l[k].out = "ok" => l[k].path \notin Written(o)
        /\ l[k].out = "exists" => l[k].path \notin Written(o)

\* C29: when two invocations for results with different file_name and
\* attachment names have both ended, each has listed the vault anew before
\* every trash, has trashed no file written by the other and has collided
\* with no file written by the other.
C29_NoConfusion ==
    ( /\ BothDone /\ SameRoot
      /\ WellFormed /\ GetProp(other.result, "file_name") # FileName )
    => /\ Unconfused(log, other.log)
       /\ Unconfused(other.log, log)

-----------------------------------------------------------------------------
(* One invocation whose calls all resolve or reject *)

\* every step of Next is a call that resolves or rejects, followed by the
\* statements up to the next call: a call that is awaited does end
\* (the cookie is only passed on to requestUrl: one value is enough here)
InitFair == Init /\ cookie = << "c", "1" >>

SpecFair == InitFair /\ [][Next]_vars /\ WF_vars(Next)

\* C30: an invocation whose calls all resolve or reject reaches the end of
\* process_result, with a Notice or an alert shown, and makes no call after
\* that.
C30_Terminates ==
    /\ <>( Completed /\ Signals # {} )
    /\ [][ Completed => ( Completed' /\ log' = log ) ]_vars

C30_Witness ==
    /\ Completed /\ WellFormed /\ NumLinks = MaxLinks
    /\ Count("requestUrl") = MaxLinks
    /\ Count("trash") = MaxLinks + 1
    /\ Count("Notice") = 1

\* the result has no file_name, or an empty one
NoFileName == Structured /\ ~ Truthy(FileName)

\* C31: an invocation on a structured result without a file_name, or with an
\* empty one, makes no create, createBinary or requestUrl call and no
\* clipboard write, and ends with exactly one alert.
C31_NoFileNameNotPersisted ==
    NoFileName =>
        /\ Count("create") = 0
        /\ Count("createBinary") = 0
        /\ Count("requestUrl") = 0
        /\ Count("writeText") = 0
        /\ Completed => Count("alert") = 1

\* the alert of process_result line 41
UnsuccessfulAlerts ==
    { k \in Idx("alert") : log[k].arg = << "File saving was unsuccessful" >> }

\* C32: whenever save_result has returned, file_saved is true, also when no
\* file was created; the alert 'File saving was unsuccessful' is never
\* shown, and every alert on a structured result is the one of the catch of
\* process_result, shown for a thrown value.
C32_SaveResultReturnsTrue ==
    Structured =>
        /\ pc \in { "saved", "notice" } => file_saved
        /\ Count("writeText") > 0 => file_saved
        /\ UnsuccessfulAlerts = {}
        /\ \A k \in Idx("alert") :
              /\ log[k].arg = << "There was a problem saving message results: " >>
                              \o err.message
              /\ err # NoError
              /\ ~ file_saved \/ log[k - 1].op = "writeText"

C32_Witness ==
    /\ pc = "saved" /\ WellFormed
    /\ file_saved
    /\ tfiles = << >>
    /\ Writes # {} /\ \A k \in Writes : log[k].out # "ok"

\* call k is a clipboard write that was rejected
ClipboardRejected(k) == log[k].op = "writeText" /\ log[k].out # "ok"

\* every file that the invocation has written, and has not trashed or
\* written again since, is in the vault with the content written
StillStored ==
    \A j \in Writes :
        ( /\ log[j].out = "ok"
          /\ \A i \in (j + 1)..Len(log) :
                ~ ( /\ log[i].path = log[j].path /\ log[i].out = "ok"
                    /\ log[i].op \in { "trash", "create", "createBinary" } ) )
        => /\ log[j].path \in DOMAIN store
           /\ store[log[j].path] = log[j].arg

\* C33: a clipboard write that is rejected is followed by one alert and
\* nothing else: no Notice, no trash; the files written by the invocation
\* are still in the vault when it has ended. (The log only grows, one call
\* at a time: every call is the call made last in some state.)
C33_ClipboardFailureKeepsFiles ==
    Structured =>
        LET n == Len(log)
        IN  /\ ( n > 0 /\ ClipboardRejected(n) ) =>
                  /\ pc = "catch" /\ file_saved
                  /\ Count("alert") = 0 /\ Count("Notice") = 0
                  /\ StillStored
            /\ ( n > 1 /\ ClipboardRejected(n - 1) ) =>
                  /\ Completed
                  /\ log[n].op = "alert"
                  /\ Count("alert") = 1 /\ Count("Notice") = 0
                  /\ StillStored
            /\ n > 1 => log[n - 1].op # "alert"

C33_Witness ==
    /\ Completed /\ WellFormed /\ NumLinks = MaxLinks
    /\ ClipboardRejected(Len(log) - 1)
    /\ \A k \in 1..(Len(log) - 2) : log[k].out = "ok"
    /\ \A e \in 1..NumLinks :
          PathJoin(attachment_path, LinkEntries[e][1]) \in DOMAIN store
    /\ PrimaryPath \in DOMAIN store /\ store[PrimaryPath] = result_data

====
